---------------------------- MODULE Spec2Model ----------------------------
(***************************************************************************)
(* A model of leche (lib/leche.js): the fake-object generator fake() and   *)
(* the JavaScript object semantics it relies on (own properties with       *)
(* descriptors, the prototype chain, [[Get]] / [[Set]] in strict mode,     *)
(* for-in enumeration), together with the operations a test performs on a  *)
(* fake afterwards: reading, assigning and calling its members; the stub   *)
(* generator create(); and the dataset driver withData() with the test     *)
(* framework's describe() it registers its groups with.                    *)
(***************************************************************************)
EXTENDS Integers, Sequences, FiniteSets, TLC

VARIABLES
    es3,      \* TRUE iff the runtime has no Object.getOwnPropertyDescriptor
    heap,     \* heap[o][k]: the own property k of object o (Absent if none)
    proto,    \* proto[o]: the [[Prototype]] of object o
    built,    \* built[f]: "none" | "returned" | "threw", the call fake() that makes f
    plan,     \* the test: how many fakes it builds, which values it assigns
    written,  \* written[f][k]: the value the test assigned to f[k] last, if any
    last,     \* the operation performed last and its observable outcome
    stub,     \* the call create(methods) that made the template, if one did
    dataset,  \* the first argument of the call of withData(), if one was made
    suites,   \* the titles of the groups registered with describe(), in order
    calls     \* the argument lists testFunction was invoked with, in order

vars == <<es3, heap, proto, built, plan, written, last, stub, dataset, suites, calls>>

\* What create() and withData() work on; fake() and the operations on a fake
\* leave it alone.
harness == <<stub, dataset, suites, calls>>

-----------------------------------------------------------------------------
(* Bounds *)

\* Number of ancestors of the template that carry modelled properties.
MaxDepth == 1

\* Largest number of properties defined over the template and its ancestors.
MaxProps == 2

\* Longest list of method names given to create().
MaxMethods == 3

\* Largest number of entries of a dataset given to withData().
MaxEntries == 3

-----------------------------------------------------------------------------
(* Objects, property names and values *)

AllChain == <<"template", "proto1", "proto2", "proto3">>

\* template, its prototype, the prototype of that, ...
Chain == SubSeq(AllChain, 1, MaxDepth + 1)

ChainObjects == {Chain[i] : i \in 1..Len(Chain)}

Template == Chain[1]

Fakes == {"fake1", "fake2"}

Objects == ChainObjects \cup Fakes

\* Object.prototype and what lies beyond it: no modelled property lives there.
Null == "null"

\* Property names, in the order in which an object enumerates its own keys.
NameSeq == <<"p", "q">>

Names == {NameSeq[i] : i \in 1..Len(NameSeq)}

Undefined == [t |-> "undefined", n |-> ""]

\* A value that is not a function: null, 0, the empty string, other strings.
Prim(s) == [t |-> "prim", n |-> s]

\* The function a template (or ancestor) defines under the name k.
Method(k) == [t |-> "method", n |-> k]

\* A function supplied by the test to replace a member of a fake.
Stub == [t |-> "stub", n |-> "f"]

\* A reference to the object o, as a value: a fake, or an object of the test.
Ref(o) == [t |-> "ref", n |-> o]

\* undefined, null, 0, '' and three other strings.
NonFunctions == {Undefined} \cup {Prim(s) : s \in {"null", "0", "", "box", "foo", "leche"}}

\* Faulty variant: the stand-in is the template's own function.
GuardFnCallsOriginal(methodKey) == Method(methodKey)

\* The function fake() installs for the method named methodKey (lines 273-275).
GuardFn(methodKey) == [t |-> "guard", n |-> methodKey]

\* function noop() {}, lines 170-172.
noop == [t |-> "noop", n |-> "noop"]

IsFunction(v) == v.t \in {"method", "guard", "stub", "noop"}

-----------------------------------------------------------------------------
(* Own properties.  A data property has value and writable; an accessor    *)
(* property has get and set, each "none", "user" (code of the template's   *)
(* author) or "guard" (the closures of lines 243-260, whose captured       *)
(* variables propertyIsSet, propertyValue and propertyKey are kept in the  *)
(* record of the property they belong to).  yields says what a "user"      *)
(* getter does when it runs on a real object: it returns a function,       *)
(* returns another value, or throws.                                       *)

Absent ==
    [kind |-> "absent", value |-> Undefined, writable |-> FALSE,
     enumerable |-> FALSE, get |-> "none", set |-> "none", yields |-> "other",
     propertyIsSet |-> FALSE, propertyValue |-> Undefined, propertyKey |-> ""]

DataProperty(v, w, e) ==
    [Absent EXCEPT !.kind = "data", !.value = v, !.writable = w, !.enumerable = e]

AccessorProperty(g, y, s, e) ==
    [Absent EXCEPT !.kind = "accessor", !.get = g, !.yields = y, !.set = s,
                   !.enumerable = e]

\* Faulty variant: the descriptor without writable: true.
PlaceholderReadOnly == DataProperty(Undefined, FALSE, TRUE)

\* The descriptor of lines 228-233: { value: undefined, writable: true, enumerable: true }.
PlaceholderDescriptor == DataProperty(Undefined, TRUE, TRUE)

\* The descriptor of lines 242-263, with the closure state of lines 239-240.
GuardedDescriptor(propertyKey) ==
    [AccessorProperty("guard", "other", "guard", TRUE) EXCEPT !.propertyKey = propertyKey]

\* Errors.  leche throws plain Errors with a message; the runtime throws
\* TypeErrors; a getter of the template may throw an error of its own.
NoError == [type |-> "none", message |-> ""]

UnexpectedUse(propertyKey) ==
    [type |-> "Error", message |-> "Unexpected use of property \"" \o propertyKey \o "\"."]

UnexpectedCall(methodKey) ==
    [type |-> "Error", message |-> "Unexpected call to method \"" \o methodKey \o "\"."]

TypeError == [type |-> "TypeError", message |-> ""]

UserError == [type |-> "UserError", message |-> ""]

-----------------------------------------------------------------------------
(* Object semantics of the runtime *)

\* object.hasOwnProperty(key)
HasOwnProperty(h, o, k) == h[o][k].kind # "absent"

\* The first object on the prototype chain of o that has an own property k.
RECURSIVE Holder(_, _, _, _)
Holder(h, pr, o, k) ==
    IF o = Null THEN Null
    ELSE IF HasOwnProperty(h, o, k) THEN o
    ELSE Holder(h, pr, pr[o], k)

\* What a getter written by the template's author does when it runs.
GetterOutcomes == {"function", "other", "throws"}

\* o[k]: the value read, or the error thrown, and the user code that ran.
\* A getter of the template runs with this = o; when o is a fake, which has
\* none of the template's internal state, the getter may fail where it
\* succeeds on the template (the getter of tests/lib/leche-test.js:147-149
\* does): fails is that input.
Get(h, pr, o, k, fails) ==
    LET holder == Holder(h, pr, o, k)
        prop == h[holder][k]
        ret(v) == [out |-> "return", err |-> NoError, value |-> v, ran |-> {}]
    IN  IF holder = Null THEN ret(Undefined)
        ELSE IF prop.kind = "data" THEN ret(prop.value)
        ELSE IF prop.get = "none" THEN ret(Undefined)
        ELSE IF prop.get = "guard" THEN
            \* lines 243-249
            IF prop.propertyIsSet THEN ret(prop.propertyValue)
            ELSE [out |-> "throw", err |-> UnexpectedUse(prop.propertyKey),
                  value |-> Undefined, ran |-> {}]
        ELSE IF prop.yields = "throws" \/ fails THEN
            [out |-> "throw", err |-> UserError, value |-> Undefined,
             ran |-> {<<"getter", k>>}]
        ELSE [out |-> "return", err |-> NoError,
              value |-> IF prop.yields = "function" THEN Method(k) ELSE Prim("leche"),
              ran |-> {<<"getter", k>>}]

\* Faulty variant: the flag is derived from the value, propertyIsSet = (value !== undefined).
GuardSetterUnlessUndefined(h, o, k, value) ==
    [h EXCEPT ![o][k].propertyIsSet = (value # Undefined), ![o][k].propertyValue = value]

\* Faulty variant: propertyIsSet and propertyValue declared outside fake(),
\* one pair per property name for all the fakes.
GuardSetterShared(h, o, k, value) ==
    [x \in DOMAIN h |->
        IF h[x][k].get = "guard"
        THEN [h[x] EXCEPT ![k].propertyIsSet = TRUE, ![k].propertyValue = value]
        ELSE h[x]]

\* Faulty variant: the setter redefines the property as a plain field.
GuardSetterRedefines(h, o, k, value) == [h EXCEPT ![o][k] = DataProperty(value, TRUE, TRUE)]

\* The setter of lines 250-260, run on the guarded property k of object o.
GuardSetter(h, o, k, value) ==
    [h EXCEPT ![o][k].propertyIsSet = TRUE, ![o][k].propertyValue = value]

\* o[k] = v in strict mode: the heap afterwards, or the error thrown.
Set(h, pr, o, k, v) ==
    LET holder == Holder(h, pr, o, k)
        prop == h[holder][k]
        done(h2, r) == [out |-> "return", err |-> NoError, heap |-> h2, ran |-> r]
        fail == [out |-> "throw", err |-> TypeError, heap |-> h, ran |-> {}]
        own == [h EXCEPT ![o][k] =
                   IF HasOwnProperty(h, o, k) THEN [h[o][k] EXCEPT !.value = v]
                   ELSE DataProperty(v, TRUE, TRUE)]
    IN  IF holder = Null THEN done(own, {})
        ELSE IF prop.kind = "data" THEN
            IF prop.writable THEN done(own, {}) ELSE fail
        ELSE IF prop.set = "none" THEN fail
        ELSE IF prop.set = "guard" THEN done(GuardSetter(h, holder, k, v), {})
        ELSE done(h, {<<"setter", k>>})

\* Object.defineProperty(o, k, descriptor) on a configurable or new property.
DefineProperty(h, o, k, descriptor) == [h EXCEPT ![o][k] = descriptor]

\* The names for (key in o) visits: the enumerable own properties of o, then
\* those of each prototype in turn, a name shadowed by a nearer property
\* (enumerable or not) being skipped.
RECURSIVE ForIn(_, _, _, _)
ForIn(h, pr, o, seen) ==
    IF o = Null THEN <<>>
    ELSE LET own == SelectSeq(NameSeq,
                        LAMBDA k : HasOwnProperty(h, o, k) /\ k \notin seen
                                       /\ h[o][k].enumerable)
             hidden == {k \in Names : HasOwnProperty(h, o, k)}
         IN  own \o ForIn(h, pr, pr[o], seen \cup hidden)

-----------------------------------------------------------------------------
(* lib/leche.js: the private helpers *)

\* The test "Object.getOwnPropertyDescriptor &&" of lines 43 and 66.
HasGetOwnPropertyDescriptor == ~es3

\* Faulty variant: the check made against the fake, which has no own
\* property when the loop reaches key (see the comment of line 219).
IsAccessorPropertyOfFake(h, object, key) == FALSE

\* isAccessorProperty(object, key), lines 38-50.
IsAccessorProperty(h, object, key) ==
    /\ HasGetOwnPropertyDescriptor
    /\ HasOwnProperty(h, object, key)
    /\ h[object][key].kind = "accessor"

\* Faulty variant: the descriptor of a data property taken for an accessor's.
IsES5DataPropertyNever(h, object, key) == FALSE

\* isES5DataProperty(object, key), lines 61-73.
IsES5DataProperty(h, object, key) ==
    /\ HasGetOwnPropertyDescriptor
    /\ HasOwnProperty(h, object, key)
    /\ h[object][key].kind = "data"
    /\ ~IsFunction(h[object][key].value)

\* Faulty variant: typeof object[key] !== 'undefined' taken for the test, which
\* every function passes.
IsES3DataPropertyOfAny(r) == TRUE

\* isES3DataProperty(object, key), lines 82-84, given the outcome r of the
\* read object[key] it performs.
IsES3DataProperty(r) == ~IsFunction(r.value)

\* Faulty variant: the new object is a sibling of proto, not its child.
CreateObjectCopy(pr, object, protoArg) == [pr EXCEPT ![object] = pr[protoArg]]

\* createObject(proto), lines 94-98: object is the new F().
CreateObject(pr, object, protoArg) == [pr EXCEPT ![object] = protoArg]

-----------------------------------------------------------------------------
(* lib/leche.js: fake(), lines 211-283 *)

\* Faulty variant: no immediately-invoked function; the closures share the
\* loop variable key, which holds the last key once the loop has ended.
BoundKeyOfLoop(keys, i) == keys[Len(keys)]

\* The argument an immediately-invoked function binds (propertyKey of line
\* 237, methodKey of line 272): the key of the iteration that invokes it.
BoundKey(keys, i) == keys[i]

\* Faulty variant: template[key] = v.
AssignOnTemplate(h, pr, template, fake, key, v) == Set(h, pr, template, key, v)

\* fake[key] = v, lines 269 and 272.
AssignOnFake(h, pr, template, fake, key, v) == Set(h, pr, fake, key, v)

\* One iteration of the loop of lines 215-280.  st holds the heap so far and
\* whether an exception has ended the call; failsOnFake[key] says whether a
\* getter of the template fails when it runs on the fake.
FakeIteration(st, pr, template, fake, keys, i, failsOnFake) ==
    LET key == keys[i]
        h == st.heap
        thrown(r) == [st EXCEPT !.out = "throw", !.err = r.err,
                                !.ran = st.ran \cup r.ran]
        assigned(r, ran) == [heap |-> r.heap, out |-> r.out, err |-> r.err,
                             ran |-> st.ran \cup ran \cup r.ran]
        onTemplate == Get(h, pr, template, key, FALSE)
        onFake == Get(h, pr, fake, key, failsOnFake[key])
    IN  IF IsAccessorProperty(h, template, key) THEN
            [st EXCEPT !.heap = DefineProperty(h, fake, key, PlaceholderDescriptor)]
        ELSE IF IsES5DataProperty(h, template, key) THEN
            [st EXCEPT !.heap = DefineProperty(h, fake, key,
                                    GuardedDescriptor(BoundKey(keys, i)))]
        ELSE IF onTemplate.out = "throw" THEN thrown(onTemplate)
        ELSE IF IsES3DataProperty(onTemplate) THEN
            assigned(AssignOnFake(h, pr, template, fake, key, Undefined),
                     onTemplate.ran)
        ELSE IF onFake.out = "throw" THEN
            [thrown(onFake) EXCEPT !.ran = @ \cup onTemplate.ran]
        ELSE IF IsFunction(onFake.value) THEN
            assigned(AssignOnFake(h, pr, template, fake, key,
                                  GuardFn(BoundKey(keys, i))),
                     onTemplate.ran \cup onFake.ran)
        ELSE [st EXCEPT !.ran = @ \cup onTemplate.ran \cup onFake.ran]

\* The loop of lines 215-280 from its i-th key on; an exception ends it.
RECURSIVE FakeLoop(_, _, _, _, _, _, _)
FakeLoop(st, pr, template, fake, keys, i, failsOnFake) ==
    IF i > Len(keys) \/ st.out = "throw" THEN st
    ELSE FakeLoop(FakeIteration(st, pr, template, fake, keys, i, failsOnFake),
                  pr, template, fake, keys, i + 1, failsOnFake)

\* The names whose read through a fake still reaches a getter of the template.
RunsUserGetter(h, pr, o, k) ==
    LET holder == Holder(h, pr, o, k)
    IN  holder # Null /\ h[holder][k].kind = "accessor" /\ h[holder][k].get = "user"

-----------------------------------------------------------------------------
(* The state after construction: a template with its ancestors, no fake yet *)

Slots == ChainObjects \X Names

\* The properties an object of the program under test may define under k.
Descriptors(k) ==
    IF ~es3 THEN
        {DataProperty(v, w, e) :
            v \in {Method(k), Prim("leche")}, w \in BOOLEAN, e \in BOOLEAN}
        \cup {AccessorProperty("user", y, s, e) :
            y \in GetterOutcomes, s \in {"none", "user"}, e \in BOOLEAN}
        \cup {AccessorProperty("none", "other", "user", e) : e \in BOOLEAN}
    ELSE
        \* before ES5: no accessors, every property writable and enumerable
        {DataProperty(v, TRUE, TRUE) : v \in {Method(k), Prim("leche")}}

NoOperation ==
    [op |-> "none", obj |-> "", key |-> "", thisArg |-> "",
     out |-> "none", err |-> NoError, value |-> Undefined, ran |-> {}]

\* No call of create() has been made.
NoStub == [made |-> FALSE, methods |-> <<>>]

\* No call of withData() has been made.
NoDataset == [t |-> "none", n |-> ""]

\* The heap in which the slots of d hold the properties d gives them, and
\* nothing else exists: the fakes are still to be made.
InitHeap(d) ==
    [o \in Objects |-> [k \in Names |->
        IF <<o, k>> \in DOMAIN d THEN d[<<o, k>>] ELSE Absent]]

InitChain ==
    /\ proto = [o \in Objects |->
                  IF \E i \in 1..(Len(Chain) - 1) : Chain[i] = o
                  THEN Chain[(CHOOSE i \in 1..(Len(Chain) - 1) : Chain[i] = o) + 1]
                  ELSE Null]
    /\ built = [f \in Fakes |-> "none"]
    /\ written = [f \in Fakes |-> [k \in Names |-> [done |-> FALSE, value |-> Undefined]]]
    /\ last = NoOperation
    /\ stub = NoStub
    /\ dataset = NoDataset
    /\ suites = <<>>
    /\ calls = <<>>

\* Every shape of template, one fake, a value and a function assigned.
Init ==
    /\ es3 \in BOOLEAN
    /\ \E defined \in {sl \in SUBSET Slots : Cardinality(sl) <= MaxProps} :
          \E d \in [defined -> UNION {Descriptors(k) : k \in Names}] :
              /\ \A sl \in defined : d[sl] \in Descriptors(sl[2])
              /\ heap = InitHeap(d)
    /\ InitChain
    /\ plan = [fakes |-> 1, values |-> {Prim("box"), Stub}]

\* Templates in the style of the tests (enumerable, writable own fields and
\* methods, tests/lib/leche-test.js:93-97 and 121-123); one fake with every
\* kind of value assigned, or two fakes of the same template.
InitSlots ==
    /\ es3 \in BOOLEAN
    /\ \E d \in [{Template} \X Names ->
                    {Absent} \cup {DataProperty(v, TRUE, TRUE) :
                                      v \in {Method("p"), Method("q"), Prim("leche")}}] :
          /\ \A sl \in DOMAIN d : d[sl].value \in {Undefined, Prim("leche"), Method(sl[2])}
          /\ heap = InitHeap(d)
    /\ InitChain
    /\ plan \in {[fakes |-> 1, values |-> NonFunctions],
                 [fakes |-> 2, values |-> {Undefined, Prim("box")}]}

\* Templates with fields and methods of their own or of their prototype, and
\* two fakes of one that are assigned an object of the test or the second fake.
InitRefs ==
    /\ es3 \in BOOLEAN
    /\ \E defined \in {sl \in SUBSET Slots : Cardinality(sl) <= MaxProps} :
          \E d \in [defined -> {pd \in UNION {Descriptors(k) : k \in Names} :
                                    pd.kind = "data" /\ pd.writable}] :
              /\ \A sl \in defined : d[sl] \in Descriptors(sl[2])
              /\ heap = InitHeap(d)
    /\ InitChain
    /\ plan = [fakes |-> 2, values |-> {Ref("object"), Ref("fake2")}]

-----------------------------------------------------------------------------
(* Operations *)

\* Faulty variant: the guard is in the way of every call made through the
\* fake, whatever function the member holds by then.
InvokeAlwaysGuarded(fn, thisArg) ==
    IF ~IsFunction(fn) THEN
        [out |-> "throw", err |-> TypeError, value |-> Undefined, ran |-> {}]
    ELSE [out |-> "throw", err |-> UnexpectedCall(fn.n), value |-> Undefined, ran |-> {}]

\* fn.call(thisArg, ...) for the value fn read from a member.  The guard of
\* lines 273-275 declares no parameter and reads neither arguments nor this,
\* so the arguments of a call are not modelled.
Invoke(fn, thisArg) ==
    IF ~IsFunction(fn) THEN
        [out |-> "throw", err |-> TypeError, value |-> Undefined, ran |-> {}]
    ELSE IF fn.t = "guard" THEN
        [out |-> "throw", err |-> UnexpectedCall(fn.n), value |-> Undefined, ran |-> {}]
    ELSE [out |-> "return", err |-> NoError, value |-> Undefined,
          ran |-> {<<fn.t, fn.n>>}]

\* var f = leche.fake(template), lines 211-283.  A call that throws leaves
\* no fake behind: the object it was building is unreachable.
Fake(f) ==
    /\ built[f] = "none"
    /\ Cardinality({g \in Fakes : built[g] # "none"}) < plan.fakes
    /\ f = "fake1" \/ built["fake1"] # "none"
    /\ LET pr == CreateObject(proto, f, Template)
           keys == ForIn(heap, pr, f, {})
       IN  \E failsOnFake \in [Names -> BOOLEAN] :
              /\ \A k \in Names : failsOnFake[k] => RunsUserGetter(heap, pr, f, k)
              /\ LET st == FakeLoop([heap |-> heap, out |-> "return",
                                     err |-> NoError, ran |-> {}],
                                    pr, Template, f, keys, 1, failsOnFake)
                 IN  IF st.out = "throw"
                     THEN /\ built' = [built EXCEPT ![f] = "threw"]
                          /\ heap' = [st.heap EXCEPT ![f] = [k \in Names |-> Absent]]
                          /\ proto' = proto
                          /\ last' = [NoOperation EXCEPT !.op = "fake", !.obj = f,
                                         !.out = "throw", !.err = st.err, !.ran = st.ran]
                     ELSE /\ built' = [built EXCEPT ![f] = "returned"]
                          /\ heap' = st.heap
                          /\ proto' = pr
                          /\ last' = [NoOperation EXCEPT !.op = "fake", !.obj = f,
                                         !.out = "return", !.ran = st.ran]
    /\ UNCHANGED <<es3, plan, written, harness>>

\* f[k], read by the test.
Read(f, k) ==
    /\ built[f] = "returned"
    /\ \E fails \in BOOLEAN :
          /\ fails => RunsUserGetter(heap, proto, f, k)
          /\ LET r == Get(heap, proto, f, k, fails)
             IN  last' = [NoOperation EXCEPT !.op = "get", !.obj = f, !.key = k,
                             !.out = r.out, !.err = r.err, !.value = r.value,
                             !.ran = r.ran]
    /\ UNCHANGED <<es3, heap, proto, built, plan, written, harness>>

\* f[k] = v, assigned by the test (v a function: the member is replaced).
Write(f, k) ==
    /\ built[f] = "returned"
    /\ \E v \in plan.values :
          LET r == Set(heap, proto, f, k, v)
          IN  /\ heap' = r.heap
              /\ written' = IF r.out = "return"
                            THEN [written EXCEPT ![f][k] = [done |-> TRUE, value |-> v]]
                            ELSE written
              /\ last' = [NoOperation EXCEPT !.op = "set", !.obj = f, !.key = k,
                             !.out = r.out, !.err = r.err, !.value = v, !.ran = r.ran]
    /\ UNCHANGED <<es3, proto, built, plan, harness>>

\* f[k].call(thisArg, ...), called by the test.
Call(f, k, thisArg) ==
    /\ built[f] = "returned"
    /\ \E fails \in BOOLEAN :
          /\ fails => RunsUserGetter(heap, proto, f, k)
          /\ LET r == Get(heap, proto, f, k, fails)
                 c == IF r.out = "throw" THEN r ELSE Invoke(r.value, thisArg)
             IN  last' = [NoOperation EXCEPT !.op = "call", !.obj = f, !.key = k,
                             !.thisArg = thisArg,
                             !.out = c.out, !.err = c.err, !.value = c.value,
                             !.ran = r.ran \cup c.ran]
    /\ UNCHANGED <<es3, heap, proto, built, plan, written, harness>>

-----------------------------------------------------------------------------
(* lib/leche.js: create(), lines 189-201 *)

\* The lists of names a test passes to create(); a name may come twice.
RECURSIVE ListsOver(_, _)
ListsOver(S, n) ==
    IF n = 0 THEN {<<>>}
    ELSE ListsOver(S, n - 1)
             \cup {Append(l, x) : l \in {m \in ListsOver(S, n - 1) : Len(m) = n - 1}, x \in S}

NameLists == ListsOver(Names, MaxMethods)

\* Faulty variant: i < len - 1.
LoopEndShort(methods) == Len(methods) - 1

\* len of line 193.
LoopEnd(methods) == Len(methods)

\* The loop of lines 193-197 from its i-th name on: object[methods[i]] = noop.
RECURSIVE CreateLoop(_, _, _, _, _)
CreateLoop(h, pr, object, methods, i) ==
    IF i > LoopEnd(methods) THEN h
    ELSE CreateLoop(Set(h, pr, object, methods[i], noop).heap,
                    pr, object, methods, i + 1)

\* template = leche.create(methods): the object {} of line 191, whose
\* prototype is Object.prototype, with the members the loop gives it.
Create(methods) ==
    /\ ~stub.made
    /\ \A f \in Fakes : built[f] = "none"
    /\ LET object == Template
           pr == [proto EXCEPT ![object] = Null]
           h == [heap EXCEPT ![object] = [k \in Names |-> Absent]]
       IN  /\ proto' = pr
           /\ heap' = CreateLoop(h, pr, object, methods, 1)
    /\ stub' = [made |-> TRUE, methods |-> methods]
    /\ last' = [NoOperation EXCEPT !.op = "create", !.obj = Template, !.out = "return"]
    /\ UNCHANGED <<es3, built, plan, written, dataset, suites, calls>>

\* template[k](...), called by the test on the object create() returned.
CallStub(k) ==
    /\ stub.made
    /\ LET r == Get(heap, proto, Template, k, FALSE)
           c == IF r.out = "throw" THEN r ELSE Invoke(r.value, Template)
       IN  last' = [NoOperation EXCEPT !.op = "call", !.obj = Template, !.key = k,
                       !.thisArg = Template,
                       !.out = c.out, !.err = c.err, !.value = c.value,
                       !.ran = r.ran \cup c.ran]
    /\ UNCHANGED <<es3, heap, proto, built, plan, written, harness>>

\* leche.fake(leche.create(methods)), as README.md:75 proposes.
FakeOfStub(f) == stub.made /\ Fake(f)

\* No object yet: the test is about to call create().
InitCreate ==
    /\ es3 \in BOOLEAN
    /\ heap = InitHeap(<<>>)
    /\ InitChain
    /\ plan = [fakes |-> 2, values |-> {}]

NextCreate ==
    \/ \E methods \in NameLists : Create(methods)
    \/ \E k \in Names : CallStub(k)
    \/ \E f \in Fakes : FakeOfStub(f)
    \/ \E f \in Fakes, k \in Names : \E thisArg \in {f, Template} : Call(f, k, thisArg)

SpecCreate == InitCreate /\ [][NextCreate]_vars

-----------------------------------------------------------------------------
(* The values of datasets.  A dataset object has own properties, kept in   *)
(* the order in which they were created, and the enumerable properties it  *)
(* inherits; an array has its items.                                       *)

JsNull == [t |-> "null", n |-> ""]

Num(i) == [t |-> "number", n |-> i]

Str(chars) == [t |-> "string", n |-> chars]

Arr(items) == [t |-> "array", n |-> items]

Property(key, value, enumerable) ==
    [key |-> key, value |-> value, enumerable |-> enumerable]

Obj(own, inherited) == [t |-> "object", n |-> [own |-> own, inherited |-> inherited]]

\* typeof v
TypeOf(v) ==
    IF IsFunction(v) THEN "function"
    ELSE IF v.t \in {"null", "array", "object"} THEN "object"
    ELSE v.t

\* v instanceof Array
InstanceOfArray(v) == v.t = "array"

Digits == <<"0", "1", "2", "3", "4", "5", "6", "7", "8", "9">>

\* String(i) for an integer i.
RECURSIVE NumberToString(_)
NumberToString(i) ==
    IF i < 0 THEN "-" \o NumberToString(-i)
    ELSE IF i < 10 THEN Digits[i + 1]
    ELSE NumberToString(i \div 10) \o Digits[(i % 10) + 1]

\* strings.join(separator)
RECURSIVE Join(_, _)
Join(strings, separator) ==
    IF Len(strings) = 0 THEN ""
    ELSE IF Len(strings) = 1 THEN strings[1]
    ELSE strings[1] \o separator \o Join(Tail(strings), separator)

\* The text of a function, as Function.prototype.toString gives it.
FunctionText == "function () {}"

\* v.toString() for a v other than null and undefined; an array joins its
\* items with commas, null and undefined items giving the empty string.
RECURSIVE ToStringOf(_)
ToStringOf(v) ==
    IF v.t = "number" THEN NumberToString(v.n)
    ELSE IF v.t = "string" THEN v.n
    ELSE IF v.t = "boolean" THEN (IF v.n THEN "true" ELSE "false")
    ELSE IF v.t = "array" THEN Join([i \in 1..Len(v.n) |-> ToStringOf(v.n[i])], ",")
    ELSE IF v.t = "object" THEN "[object Object]"
    ELSE IF IsFunction(v) THEN FunctionText
    ELSE ""

\* The character of key at position j.
CharAt(key, j) == SubSeq(key, j, j)

\* key is an array index in canonical form: "0", "1", "2", ..., "10", ...
IsArrayIndex(key) ==
    /\ Len(key) > 0
    /\ \A j \in 1..Len(key) : \E d \in 1..10 : CharAt(key, j) = Digits[d]
    /\ Len(key) > 1 => CharAt(key, 1) # "0"

\* The number an array index spells.
RECURSIVE IndexValue(_)
IndexValue(key) ==
    IF Len(key) = 0 THEN 0
    ELSE 10 * IndexValue(SubSeq(key, 1, Len(key) - 1))
           + (CHOOSE d \in 0..9 : Digits[d + 1] = CharAt(key, Len(key)))

\* Faulty variant: the properties in the order of their creation.
OwnPropertyKeysAsCreated(own) == own

\* The own properties in the order in which the runtime enumerates them:
\* array indices first, ascending, then the other keys as they were created.
OwnPropertyKeys(own) ==
    SortSeq(SelectSeq(own, LAMBDA pr : IsArrayIndex(pr.key)),
            LAMBDA a, b : IndexValue(a.key) < IndexValue(b.key))
        \o SelectSeq(own, LAMBDA pr : ~IsArrayIndex(pr.key))

\* Faulty variant: no test of hasOwnProperty (line 325 left out).
HasOwnKeyOrInherits(object, key) == TRUE

\* object.hasOwnProperty(key), line 325.
HasOwnKey(object, key) ==
    \E i \in 1..Len(object.n.own) : object.n.own[i].key = key

\* The names for (name in object) visits, line 324: the enumerable own keys,
\* then the inherited ones that no own property hides.
KeysForIn(object) ==
    LET own == SelectSeq(OwnPropertyKeys(object.n.own), LAMBDA pr : pr.enumerable)
        inherited == SelectSeq(object.n.inherited,
                               LAMBDA pr : \A i \in 1..Len(object.n.own) :
                                              object.n.own[i].key # pr.key)
    IN  [i \in 1..Len(own) |-> own[i].key]
            \o [i \in 1..Len(inherited) |-> inherited[i].key]

\* object[key], lines 155 and 331.
GetValue(object, key) ==
    LET all == object.n.own \o object.n.inherited
    IN  IF \E i \in 1..Len(all) : all[i].key = key
        THEN all[CHOOSE i \in 1..Len(all) :
                    all[i].key = key /\ \A j \in 1..(i - 1) : all[j].key # key].value
        ELSE Undefined

\* Faulty variant: a key that exists already keeps the value it has.
PutValueOnce(object, key, value) ==
    IF HasOwnKey(object, key) THEN object
    ELSE [object EXCEPT !.n.own = Append(@, Property(key, value, TRUE))]

\* object[key] = value for an object that inherits no setter, line 159: an
\* existing property keeps its place and takes the value, a new one is added.
PutValue(object, key, value) ==
    IF HasOwnKey(object, key)
    THEN [object EXCEPT !.n.own =
              [i \in 1..Len(@) |-> IF @[i].key = key
                                   THEN [@[i] EXCEPT !.value = value] ELSE @[i]]]
    ELSE [object EXCEPT !.n.own = Append(@, Property(key, value, TRUE))]

-----------------------------------------------------------------------------
(* lib/leche.js: the labels of array datasets, lines 108-163 *)

\* The properties JSON.stringify writes: enumerable, own, with a value that
\* is neither undefined nor a function.
Serialized(own) ==
    SelectSeq(OwnPropertyKeys(own),
              LAMBDA pr : pr.enumerable /\ pr.value.t # "undefined" /\ ~IsFunction(pr.value))

\* JSON.stringify(v) for the values of datasets (no character of their
\* strings needs an escape).
RECURSIVE JSONStringify(_)
JSONStringify(v) ==
    IF v.t = "number" THEN NumberToString(v.n)
    ELSE IF v.t = "string" THEN "\"" \o v.n \o "\""
    ELSE IF v.t = "boolean" THEN (IF v.n THEN "true" ELSE "false")
    ELSE IF v.t = "array" THEN
        "[" \o Join([i \in 1..Len(v.n) |-> JSONStringify(v.n[i])], ",") \o "]"
    ELSE IF v.t = "object" THEN
        LET members == Serialized(v.n.own)
        IN  "{" \o Join([i \in 1..Len(members) |->
                            "\"" \o members[i].key \o "\":" \o JSONStringify(members[i].value)],
                        ",") \o "}"
    ELSE "null"

\* text.slice(0, maxLen)
Slice(text, maxLen) == IF Len(text) <= maxLen THEN text ELSE SubSeq(text, 1, maxLen)

\* The second argument of line 130.
LabelLength == 30

\* Faulty variant: the whole JSON text, whatever its length.
JSONStringifyWhole(object, maxLen) == JSONStringify(object)

\* truncatedJSONStringify(object, maxLen), lines 108-110.
TruncatedJSONStringify(object, maxLen) == Slice(JSONStringify(object), maxLen)

\* stringifyObject(object, maxDepth), lines 123-134: the string, or the
\* TypeError of null.toString() and undefined.toString() (line 124).
RECURSIVE StringifyObject(_, _)
StringifyObject(object, maxDepth) ==
    IF object.t \in {"null", "undefined"} THEN [out |-> "throw", value |-> ""]
    ELSE IF InstanceOfArray(object) /\ maxDepth > 0 THEN
        LET items == [i \in 1..Len(object.n) |-> StringifyObject(object.n[i], maxDepth - 1)]
        IN  IF \E i \in 1..Len(items) : items[i].out = "throw"
            THEN [out |-> "throw", value |-> ""]
            ELSE [out |-> "return",
                  value |-> Join([i \in 1..Len(items) |-> items[i].value], ",")]
    ELSE IF ToStringOf(object) = "[object Object]" THEN
        [out |-> "return", value |-> TruncatedJSONStringify(object, LabelLength)]
    ELSE [out |-> "return", value |-> ToStringOf(object)]

\* The second argument of line 159.
LabelDepth == 1

\* createNamedDataset(array), lines 155-163, from the i-th item on: the
\* object, or the TypeError of a label.
RECURSIVE CreateNamedDataset(_, _, _)
CreateNamedDataset(array, result, i) ==
    IF i > Len(array.n) THEN [out |-> "return", value |-> result]
    ELSE LET label == StringifyObject(array.n[i], LabelDepth)
         IN  IF label.out = "throw" THEN [out |-> "throw", value |-> result]
             ELSE CreateNamedDataset(array,
                                     PutValue(result, label.value, array.n[i]),
                                     i + 1)

-----------------------------------------------------------------------------
(* lib/leche.js: withData(), lines 293-344 *)

\* The Error of lines 297 and 314.
FirstArgumentError ==
    [type |-> "Error", message |-> "First argument must be an object or non-empty array."]

\* testFunction.apply(this, args), line 337, for a testFunction that records
\* its arguments (the spy of tests/lib/leche-test.js:163).
TestFunction(st, args) == [st EXCEPT !.calls = Append(@, args)]

\* Faulty variant: the value is always passed as the one argument.
ArgumentsUnspread(args) == <<args>>

\* The arguments of lines 331-335: an array is spread, any other value is
\* the single argument.
Arguments(args) == IF InstanceOfArray(args) THEN args.n ELSE <<args>>

\* The function of lines 329-338 that describe() is given for dataName.
GroupBody(st, namedDataset, dataName) ==
    TestFunction(st, Arguments(GetValue(namedDataset, dataName)))

\* describe(title, fn) of the test framework: the group is registered under
\* its title and fn runs at once, before describe returns.
Describe(st, title, namedDataset, dataName) ==
    GroupBody([st EXCEPT !.suites = Append(@, title)], namedDataset, dataName)

\* The loop of lines 324-343 from the i-th name on.
RECURSIVE WithDataLoop(_, _, _, _)
WithDataLoop(st, namedDataset, names, i) ==
    IF i > Len(names) THEN st
    ELSE WithDataLoop(
            IF HasOwnKey(namedDataset, names[i])
            THEN Describe(st, "with " \o names[i], namedDataset, names[i])
            ELSE st,
            namedDataset, names, i + 1)

\* Faulty variant: an empty array taken for a dataset.
HasItemsOrIsArray(d) == TRUE

\* dataset.length as a condition, line 310.
HasItems(d) == Len(d.n) # 0

\* The test of line 296.
IsMissing(d) == TypeOf(d) # "object" \/ d = JsNull

\* withData(d, testFunction), lines 293-344: how it ends, and the groups
\* and invocations it has added to st by then.
WithDataCall(st, d) ==
    LET throw(error) == [st EXCEPT !.out = "throw", !.err = error]
        run(namedDataset) ==
            WithDataLoop(st, namedDataset, KeysForIn(namedDataset), 1)
    IN  IF IsMissing(d) THEN throw(FirstArgumentError)
        ELSE IF InstanceOfArray(d) THEN
            IF HasItems(d) THEN
                LET named == CreateNamedDataset(d, Obj(<<>>, <<>>), 1)
                IN  IF named.out = "throw" THEN throw(TypeError)
                    ELSE run(named.value)
            ELSE throw(FirstArgumentError)
        ELSE run(d)

\* The entries of array datasets and the values of mappings.
Entries ==
    {Num(1), Num(2), Num(10), Str("1"), Str("a"), Str("1,2"),
     Arr(<<Num(1), Num(2)>>), Arr(<<>>), Arr(<<Arr(<<Num(1)>>), Num(2)>>),
     Obj(<<Property("a", Num(1), TRUE)>>, <<>>), JsNull, Undefined}

\* The array datasets with at most MaxEntries entries.
Arrays == {Arr(items) : items \in ListsOver(Entries, MaxEntries)}

\* The keys of mappings: names in the style of the tests and keys that are
\* array indices.
Keys == {"name1", "2", "10", "1"}

\* The properties of mappings.
Properties ==
    {Property(key, value, enumerable) :
        key \in Keys, value \in {Num(1), Arr(<<Num(3), Num(4)>>)},
        enumerable \in BOOLEAN}

\* The mappings with at most MaxEntries own properties, which they may have
\* got in any order, and that may inherit an enumerable property.
Mappings ==
    {Obj(own, inherited) :
        own \in {l \in ListsOver(Properties, MaxEntries) :
                    \A i \in 1..Len(l), j \in 1..Len(l) : i # j => l[i].key # l[j].key},
        inherited \in {<<>>, <<Property("name2", Num(2), TRUE)>>,
                       <<Property("name1", Num(2), TRUE)>>}}

\* What is no dataset: undefined, null, a number, a string, a boolean, a function.
NonObjects ==
    {Undefined, JsNull, Num(1), Str("name1"), [t |-> "boolean", n |-> TRUE], noop}

\* A plain object whose JSON text is longer than LabelLength.
LongObject == Obj(<<Property("description", Str("0123456789012345678901234"), TRUE)>>, <<>>)

\* An instance of a class: its own field, and the method of its prototype.
Instance == Obj(<<Property("a", Num(1), TRUE)>>, <<Property("m", noop, TRUE)>>)

\* Entries whose labels take the other paths of stringifyObject(): objects
\* with short and long JSON texts, arrays of objects, arrays nested two and
\* three levels deep, and entries in the style of the tests.
LabelEntries ==
    {Num(123), Str("testName"), Str("[object Object]"),
     Arr(<<Str("a"), Num(2)>>), Arr(<<Str("[object Object]")>>),
     LongObject, Instance, Obj(<<>>, <<>>),
     Arr(<<Obj(<<Property("a", Num(1), TRUE)>>, <<>>),
           Obj(<<Property("b", Str("x"), TRUE)>>, <<>>)>>),
     Arr(<<LongObject, Num(1)>>),
     Arr(<<Arr(<<Num(1), Num(2)>>), Arr(<<Num(3)>>)>>),
     Arr(<<Arr(<<Arr(<<Num(1)>>)>>)>>),
     Arr(<<Arr(<<Obj(<<>>, <<>>)>>)>>),
     Arr(<<Num(1), JsNull>>), Arr(<<Undefined>>)}

\* The array datasets with one of these entries.
LabelArrays == {Arr(<<entry>>) : entry \in LabelEntries}

Datasets == NonObjects \cup Arrays \cup LabelArrays \cup Mappings

\* withData(d, testFunction), called by a test file while it is loaded.
WithData(d) ==
    /\ dataset = NoDataset
    /\ LET r == WithDataCall([out |-> "return", err |-> NoError,
                              suites |-> suites, calls |-> calls], d)
       IN  /\ suites' = r.suites
           /\ calls' = r.calls
           /\ last' = [NoOperation EXCEPT !.op = "withData", !.out = r.out, !.err = r.err]
    /\ dataset' = d
    /\ UNCHANGED <<es3, heap, proto, built, plan, written, stub>>

\* A test file that has registered nothing yet.
InitData ==
    /\ es3 = FALSE
    /\ heap = InitHeap(<<>>)
    /\ InitChain
    /\ plan = [fakes |-> 0, values |-> {}]

NextData == \E d \in Datasets : WithData(d)

SpecData == InitData /\ [][NextData]_vars

-----------------------------------------------------------------------------
(* dist/leche.js, the build for web pages: create() and fake() are the text
   of lib/leche.js; createNamedDataset() is not. *)

\* createNamedDataset(array) of dist/leche.js, lines 136-144, from the i-th
\* item on: the label is array[i].toString(), or its TypeError.
RECURSIVE DistCreateNamedDataset(_, _, _)
DistCreateNamedDataset(array, result, i) ==
    IF i > Len(array.n) THEN [out |-> "return", value |-> result]
    ELSE IF array.n[i].t \in {"null", "undefined"} THEN [out |-> "throw", value |-> result]
    ELSE DistCreateNamedDataset(array,
                                PutValue(result, ToStringOf(array.n[i]), array.n[i]),
                                i + 1)

\* withData(d, testFunction) of dist/leche.js, lines 274-325.
DistWithDataCall(st, d) ==
    LET throw(error) == [st EXCEPT !.out = "throw", !.err = error]
        run(namedDataset) ==
            WithDataLoop(st, namedDataset, KeysForIn(namedDataset), 1)
    IN  IF IsMissing(d) THEN throw(FirstArgumentError)
        ELSE IF InstanceOfArray(d) THEN
            IF HasItems(d) THEN
                LET named == DistCreateNamedDataset(d, Obj(<<>>, <<>>), 1)
                IN  IF named.out = "throw" THEN throw(TypeError)
                    ELSE run(named.value)
            ELSE throw(FirstArgumentError)
        ELSE run(d)

\* withData(d, testFunction), called by a test file of a web page.
DistWithData(d) ==
    /\ dataset = NoDataset
    /\ LET r == DistWithDataCall([out |-> "return", err |-> NoError,
                                  suites |-> suites, calls |-> calls], d)
       IN  /\ suites' = r.suites
           /\ calls' = r.calls
           /\ last' = [NoOperation EXCEPT !.op = "dist.withData", !.out = r.out, !.err = r.err]
    /\ dataset' = d
    /\ UNCHANGED <<es3, heap, proto, built, plan, written, stub>>

\* A test file runs on one of the two builds.
NextBuilds ==
    \/ \E d \in Datasets : WithData(d)
    \/ \E d \in Datasets : DistWithData(d)

SpecBuilds == InitData /\ [][NextBuilds]_vars

-----------------------------------------------------------------------------

Next ==
    \/ \E f \in Fakes : Fake(f)
    \/ \E f \in Fakes, k \in Names : Read(f, k)
    \/ \E f \in Fakes, k \in Names : Write(f, k)
    \/ \E f \in Fakes, k \in Names : \E thisArg \in {f, Template} : Call(f, k, thisArg)

Spec == Init /\ [][Next]_vars

SpecSlots == InitSlots /\ [][Next]_vars

SpecRefs == InitRefs /\ [][Next]_vars

-----------------------------------------------------------------------------
(* Notions the properties below are stated with *)

\* a.isPrototypeOf(o), as tests/lib/leche-test.js:88 uses it.
RECURSIVE IsPrototypeOf(_, _, _)
IsPrototypeOf(pr, a, o) ==
    IF o = Null \/ pr[o] = Null THEN FALSE
    ELSE pr[o] = a \/ IsPrototypeOf(pr, a, pr[o])

\* k in o
In(h, pr, o, k) == Holder(h, pr, o, k) # Null

\* for (key in template) yields k.
Enumerated(k) ==
    LET keys == ForIn(heap, proto, Template, {})
    IN  \E i \in 1..Len(keys) : keys[i] = k

\* The property to which template[k] resolves, own or inherited.
Resolved(k) == heap[Holder(heap, proto, Template, k)][k]

\* typeof template[k] === 'function'
ResolvesToFunction(k) ==
    LET r == Get(heap, proto, Template, k, FALSE)
    IN  r.out = "return" /\ IsFunction(r.value)

\* template[k] resolves to a data property that holds a function.
ResolvesToMethod(k) ==
    /\ In(heap, proto, Template, k)
    /\ Resolved(k).kind = "data"
    /\ IsFunction(Resolved(k).value)

\* p is a guarded data slot of the fake f.
GuardedSlot(f, p) == built[f] = "returned" /\ heap[f][p].get = "guard"

\* The operation performed last is op, on member k of a fake that fake() returned.
LastIs(op) == last.op = op /\ built[last.obj] = "returned"

-----------------------------------------------------------------------------
(* Properties *)

\* C1: every fake that fake(template) returns is an object other than the
\* template whose direct prototype is the template, so the template is a
\* prototype of it and so is every object that is a prototype of the
\* template (the fake passes the instanceof checks the template passes);
\* this is so in every state, whatever was read, assigned or called since.
C1_PrototypeIsTemplate ==
    \A f \in Fakes : built[f] = "returned" =>
        /\ f # Template
        /\ proto[f] = Template
        /\ IsPrototypeOf(proto, Template, f)
        /\ \A a \in ChainObjects :
              IsPrototypeOf(proto, a, Template) => IsPrototypeOf(proto, a, f)

\* A fake whose member, a method on an ancestor of the template, was replaced
\* by assignment.
C1_Witness ==
    /\ LastIs("set") /\ last.out = "return" /\ last.value = Stub
    /\ Holder(heap, proto, Template, last.key) \notin {Template, Null}
    /\ IsPrototypeOf(proto, Chain[Len(Chain)], last.obj)

\* C2 as stated: whenever a member m of a fake is called that is enumerable
\* on the template, whose value read on the template is a function (own or
\* inherited), and that the test has not replaced, the call throws
\* Error('Unexpected call to method "m".') and runs no function of the
\* template.
C2_CallOfFunctionMemberThrows ==
    (/\ LastIs("call")
     /\ Enumerated(last.key)
     /\ ResolvesToFunction(last.key)
     /\ ~written[last.obj][last.key].done)
    => /\ last.out = "throw"
       /\ last.err = UnexpectedCall(last.key)
       /\ last.ran = {}

\* C2 amended: the same for every enumerable m that resolves on the template
\* to a data property holding a function, own or inherited at any depth.
C2_CallOfMethodThrows ==
    (/\ LastIs("call")
     /\ Enumerated(last.key)
     /\ ResolvesToMethod(last.key)
     /\ ~written[last.obj][last.key].done)
    => /\ last.out = "throw"
       /\ last.err = UnexpectedCall(last.key)
       /\ last.ran = {}

\* A method inherited from the farthest ancestor, called on another receiver.
C2_Witness ==
    /\ LastIs("call") /\ last.thisArg = Template
    /\ Enumerated(last.key) /\ ResolvesToMethod(last.key)
    /\ Holder(heap, proto, Template, last.key) = Chain[Len(Chain)]
    /\ ~written[last.obj][last.key].done
    /\ last.err = UnexpectedCall(last.key)

\* p is an own data property of the template holding a value that is no function.
OwnField(p) ==
    /\ HasOwnProperty(heap, Template, p)
    /\ heap[Template][p].kind = "data"
    /\ ~IsFunction(heap[Template][p].value)

\* p is an own accessor property of the template.
OwnAccessor(p) ==
    HasOwnProperty(heap, Template, p) /\ heap[Template][p].kind = "accessor"

\* C3 as stated: whenever a member p of a fake is read that is an own data
\* property of the template holding a non-function and that the test has not
\* assigned, the read throws Error('Unexpected use of property "p".') and
\* leaves the slot as fake() made it, so that the next read throws again.
C3_ReadOfOwnFieldThrows ==
    (/\ LastIs("get")
     /\ OwnField(last.key)
     /\ ~written[last.obj][last.key].done)
    => /\ last.out = "throw"
       /\ last.err = UnexpectedUse(last.key)
       /\ heap[last.obj][last.key] = GuardedDescriptor(last.key)

\* C3 amended: the same for the enumerable own data properties, in a runtime
\* that has Object.getOwnPropertyDescriptor.
C3_ReadOfEnumerableOwnFieldThrows ==
    (/\ LastIs("get")
     /\ HasGetOwnPropertyDescriptor
     /\ OwnField(last.key)
     /\ heap[Template][last.key].enumerable
     /\ ~written[last.obj][last.key].done)
    => /\ last.out = "throw"
       /\ last.err = UnexpectedUse(last.key)
       /\ heap[last.obj][last.key] = GuardedDescriptor(last.key)

\* A read-only field of the template, read on the fake after the fake's other
\* member was assigned.
C3_Witness ==
    /\ LastIs("get") /\ ~es3 /\ OwnField(last.key)
    /\ heap[Template][last.key].enumerable /\ ~heap[Template][last.key].writable
    /\ ~written[last.obj][last.key].done
    /\ \E q \in Names \ {last.key} : written[last.obj][q].done
    /\ last.err = UnexpectedUse(last.key)

\* C4: for every guarded data slot p of a fake f: an assignment to f[p] never
\* throws; once the test has assigned f[p] the slot is assigned (and stays
\* so: the test's assignment is never forgotten); and a read of f[p] then
\* returns exactly the value assigned last, undefined, null, 0 and '' included.
C4_SlotReturnsLastWrittenValue ==
    \A f \in Fakes, p \in Names : GuardedSlot(f, p) =>
        /\ (last.op = "set" /\ last.obj = f /\ last.key = p) =>
              /\ last.out = "return"
              /\ written[f][p] = [done |-> TRUE, value |-> last.value]
        /\ written[f][p].done => heap[f][p].propertyIsSet
        /\ (last.op = "get" /\ last.obj = f /\ last.key = p /\ written[f][p].done) =>
              /\ last.out = "return"
              /\ last.value = written[f][p].value

\* A slot that was assigned undefined is read, and undefined comes back.
C4_Witness ==
    /\ LastIs("get") /\ GuardedSlot(last.obj, last.key)
    /\ written[last.obj][last.key] = [done |-> TRUE, value |-> Undefined]
    /\ last.out = "return" /\ last.value = Undefined

PlaceholderFor(f, p) ==
    /\ heap[f][p].kind = "data"
    /\ heap[f][p].value = written[f][p].value
    /\ ~written[f][p].done => heap[f][p].value = Undefined
    /\ (last.op = "get" /\ last.obj = f /\ last.key = p) =>
          last.out = "return" /\ last.value = heap[f][p].value /\ last.ran = {}
    /\ (last.op = "set" /\ last.obj = f /\ last.key = p) =>
          last.out = "return" /\ last.ran = {}

\* C6 as stated: for every own accessor property of the template.
C6_OwnAccessorBecomesDataProperty ==
    \A f \in Fakes, p \in Names :
        (built[f] = "returned" /\ OwnAccessor(p)) => PlaceholderFor(f, p)

\* C6 amended: for every enumerable own accessor property of the template.
C6_EnumerableOwnAccessorBecomesDataProperty ==
    \A f \in Fakes, p \in Names :
        (built[f] = "returned" /\ OwnAccessor(p) /\ heap[Template][p].enumerable)
            => PlaceholderFor(f, p)

\* The placeholder of a getter-only accessor was assigned and is read back.
C6_Witness ==
    /\ LastIs("get") /\ OwnAccessor(last.key)
    /\ heap[Template][last.key].enumerable
    /\ heap[Template][last.key].set = "none"
    /\ written[last.obj][last.key].done
    /\ last.out = "return" /\ last.value = Prim("box")

\* C7: an operation on one fake leaves every own property of another fake of
\* the same template as it was, in particular the assigned flag and the
\* value of its guarded slots; a slot of the other fake that was never
\* assigned still throws when read.
C7_FakesDoNotShareSlots ==
    [][\A f \in Fakes, g \in Fakes :
          (/\ f # g
           /\ last'.op \in {"get", "set", "call"}
           /\ last'.obj = f
           /\ built[g] = "returned")
          => /\ heap'[g] = heap[g]
             /\ \A p \in Names :
                   (GuardedSlot(g, p) /\ ~written[g][p].done) =>
                       LET r == Get(heap', proto', g, p, FALSE)
                       IN  r.out = "throw" /\ r.err = UnexpectedUse(p)]_vars

\* fake1's slot was assigned, and the read of the same slot of fake2 throws.
C7_Witness ==
    /\ LastIs("get") /\ last.obj = "fake2" /\ GuardedSlot("fake2", last.key)
    /\ GuardedSlot("fake1", last.key)
    /\ written["fake1"][last.key].done /\ heap["fake1"][last.key].propertyIsSet
    /\ ~written["fake2"][last.key].done
    /\ last.err = UnexpectedUse(last.key)

\* C8: an assignment to fake[p] leaves every other guarded slot q of the same
\* fake as it was (flag and value), and a guarded slot that throws names
\* itself: the error of a read of fake[q] says "q".
C8_SlotsOfAFakeAreSeparate ==
    [][/\ \A f \in Fakes, p \in Names, q \in Names :
             (/\ p # q
              /\ last'.op = "set" /\ last'.obj = f /\ last'.key = p
              /\ GuardedSlot(f, q))
             => heap'[f][q] = heap[f][q]
       /\ \A f \in Fakes, q \in Names :
             (/\ heap'[f][q].get = "guard"
              /\ last'.op = "get" /\ last'.obj = f /\ last'.key = q)
             => IF written'[f][q].done
                THEN last'.out = "return" /\ last'.value = written'[f][q].value
                ELSE last'.out = "throw" /\ last'.err = UnexpectedUse(q)]_vars

\* Two guarded slots: p was assigned and q, never assigned, throws naming q.
C8_Witness ==
    /\ LastIs("get")
    /\ \E p \in Names \ {last.key} :
          GuardedSlot(last.obj, p) /\ written[last.obj][p].done
    /\ GuardedSlot(last.obj, last.key) /\ ~written[last.obj][last.key].done
    /\ last.err = UnexpectedUse(last.key)

\* C9: no step (fake(), a read, an assignment, a call, a replacement of a
\* member) changes an own property of the template or of its ancestors, or
\* the prototype of any of them.
C9_TemplateIsNeverMutated ==
    [][\A o \in ChainObjects : heap'[o] = heap[o] /\ proto'[o] = proto[o]]_vars

\* A method of the template was replaced on the fake and the template still
\* holds its own function.
C9_Witness ==
    /\ LastIs("set") /\ last.out = "return" /\ last.value = Stub
    /\ HasOwnProperty(heap, Template, last.key)
    /\ heap[Template][last.key].value = Method(last.key)
    /\ heap[last.obj][last.key].value = Stub

\* C10 as stated: fake(template) returns for every template; no call of
\* fake() ends with an exception.
C10_FakeNeverThrows ==
    last.op = "fake" => last.out = "return"


\* C11 as stated: once fake(template) has returned, every name that
\* for (key in template) yields, own or inherited, is an own property of the
\* fake, so that the name no longer resolves to the member of the template;
\* names that are accessors with a setter on an ancestor included.
C11_EveryEnumeratedNameIsOwnOnFake ==
    \A f \in Fakes, k \in Names :
        (built[f] = "returned" /\ Enumerated(k))
            => /\ HasOwnProperty(heap, f, k)
               /\ Holder(heap, proto, f, k) = f

\* template[k] resolves to a data property, own or inherited, that holds a
\* value that is no function.
ResolvesToField(k) ==
    /\ In(heap, proto, Template, k)
    /\ Resolved(k).kind = "data"
    /\ ~IsFunction(Resolved(k).value)

\* C12 as stated: in a runtime that has Object.getOwnPropertyDescriptor,
\* whenever a member of a fake is read that is enumerable on the template,
\* resolves there to a data property holding a non-function (own or
\* inherited) and has not been assigned by the test, the read throws
\* Error('Unexpected use of property "p".'); the fake holds no unguarded
\* placeholder (an own data property, undefined) under such a name.
C12_ReadOfAnyFieldThrowsInES5 ==
    /\ (/\ LastIs("get")
        /\ HasGetOwnPropertyDescriptor
        /\ Enumerated(last.key)
        /\ ResolvesToField(last.key)
        /\ ~written[last.obj][last.key].done)
       => /\ last.out = "throw"
          /\ last.err = UnexpectedUse(last.key)
    /\ \A f \in Fakes, p \in Names :
          (/\ built[f] = "returned"
           /\ HasGetOwnPropertyDescriptor
           /\ Enumerated(p)
           /\ ResolvesToField(p)
           /\ ~written[f][p].done)
          => heap[f][p].kind # "data"

\* C13 as stated: neither fake() nor a read or an assignment of a member of
\* a fake runs a getter or a setter that the template or one of its
\* ancestors defines.
C13_NoAccessorOfTemplateRuns ==
    last.op \in {"fake", "get", "set"} =>
        \A k \in Names : <<"getter", k>> \notin last.ran /\ <<"setter", k>> \notin last.ran

\* m is a guarded method of the fake f: the own property that line 272 made.
GuardedMethod(f, m) ==
    /\ built[f] = "returned"
    /\ heap[f][m].kind = "data"
    /\ heap[f][m].value = GuardFn(m)

\* C14: the assignment fake[m] = fn of a function to a guarded method m
\* succeeds, makes fn the value of the member and leaves every other guarded
\* method of the fake as it was; from then on, until m is assigned again, a
\* call of fake[m] runs fn and throws nothing, while a call of a guarded
\* method that was not replaced throws Error('Unexpected call to method
\* "n".') with its own name and runs nothing.
C14_ReplacedMethodRunsReplacement ==
    [][/\ \A f \in Fakes, m \in Names :
             (/\ GuardedMethod(f, m)
              /\ last'.op = "set" /\ last'.obj = f /\ last'.key = m
              /\ IsFunction(last'.value))
             => /\ last'.out = "return"
                /\ heap'[f][m].kind = "data"
                /\ heap'[f][m].value = last'.value
                /\ written'[f][m] = [done |-> TRUE, value |-> last'.value]
                /\ \A n \in Names \ {m} :
                      GuardedMethod(f, n) => heap'[f][n] = heap[f][n]
       /\ \A f \in Fakes, m \in Names :
             (last'.op = "call" /\ last'.obj = f /\ last'.key = m
                 /\ heap'[f][m].kind = "data") =>
                 /\ (written'[f][m].done /\ IsFunction(written'[f][m].value)) =>
                       /\ heap'[f][m].value = written'[f][m].value
                       /\ last'.out = "return"
                       /\ last'.ran = {<<written'[f][m].value.t, written'[f][m].value.n>>}
                 /\ (~written'[f][m].done /\ heap'[f][m].value = GuardFn(m)) =>
                       /\ last'.out = "throw"
                       /\ last'.err = UnexpectedCall(m)
                       /\ last'.ran = {}]_vars

\* The method m of the template was replaced on the fake and is called: the
\* replacement runs, while the fake's other method is still guarded.
C14_Witness ==
    /\ LastIs("call") /\ last.out = "return" /\ last.ran = {<<"stub", "f">>}
    /\ ResolvesToMethod(last.key)
    /\ written[last.obj][last.key] = [done |-> TRUE, value |-> Stub]
    /\ heap[last.obj][last.key].value = Stub
    /\ \E n \in Names \ {last.key} :
          GuardedMethod(last.obj, n) /\ ~written[last.obj][n].done

\* The names of the own properties of object o.
OwnNames(h, o) == {k \in Names : HasOwnProperty(h, o, k)}

\* The names a list holds.
Listed(methods) == {methods[i] : i \in 1..Len(methods)}

\* C15: for every list of names (empty, or with a name twice), the object
\* create(names) returns is a plain object whose own properties are exactly
\* the listed names, each holding a function; calling any of them returns
\* undefined and throws nothing, also after a fake of the object was built.
C15_CreateMakesNoopMethods ==
    stub.made =>
        /\ proto[Template] = Null
        /\ OwnNames(heap, Template) = Listed(stub.methods)
        /\ \A k \in Listed(stub.methods) :
              /\ heap[Template][k].kind = "data"
              /\ IsFunction(heap[Template][k].value)
              /\ LET c == Invoke(heap[Template][k].value, Template)
                 IN  c.out = "return" /\ c.value = Undefined
        /\ (last.op = "call" /\ last.obj = Template /\ last.key \in Listed(stub.methods))
              => /\ last.out = "return"
                 /\ last.err = NoError
                 /\ last.value = Undefined

\* A method of create(['q', 'p', 'q']) has been called and has returned.
C15_Witness ==
    /\ stub.made /\ Len(stub.methods) = 3
    /\ Cardinality(Listed(stub.methods)) = 2
    /\ last.op = "call" /\ last.obj = Template
    /\ last.key = stub.methods[3]
    /\ last.out = "return" /\ last.value = Undefined

\* C16: once fake(create(names)) has returned (and it does return), every
\* listed name n is an own member of the fake holding the guard, so that a
\* call of fake[n] throws Error('Unexpected call to method "n".') and runs
\* nothing, whereas the object create() returned still holds noop under n
\* and a call of it returns.
C16_FakeOfStubGuardsEveryMethod ==
    stub.made =>
        \A f \in Fakes :
            /\ built[f] # "threw"
            /\ built[f] = "returned" =>
                  \A n \in Listed(stub.methods) :
                      /\ In(heap, proto, f, n)
                      /\ GuardedMethod(f, n)
                      /\ heap[Template][n].value = noop
                      /\ (last.op = "call" /\ last.key = n /\ last.obj = f)
                            => /\ last.out = "throw"
                               /\ last.err = UnexpectedCall(n)
                               /\ last.ran = {}
                      /\ (last.op = "call" /\ last.key = n /\ last.obj = Template)
                            => /\ last.out = "return"
                               /\ last.ran = {<<"noop", "noop">>}

\* The second method of fake(create(['p', 'q'])) is called and throws.
C16_Witness ==
    /\ stub.made /\ stub.methods = <<"p", "q">>
    /\ last.op = "call" /\ last.obj \in Fakes /\ built[last.obj] = "returned"
    /\ last.key = "q"
    /\ last.err = UnexpectedCall("q")
    /\ heap[Template]["q"].value = noop

\* The dataset is null, undefined, a number, a string, a boolean, a function
\* or an empty array.
NotADataset(d) ==
    \/ d.t \in {"null", "undefined", "number", "string", "boolean"}
    \/ IsFunction(d)
    \/ d.t = "array" /\ Len(d.n) = 0

\* C17: a call withData(dataset, testBody) whose dataset is null, undefined,
\* a number, a string, a boolean, a function or an empty array throws
\* Error('First argument must be an object or non-empty array.'), registers
\* no group and does not invoke testBody.
C17_InvalidDatasetThrows ==
    (last.op = "withData" /\ NotADataset(dataset))
        => /\ last.out = "throw"
           /\ last.err = FirstArgumentError
           /\ suites = <<>>
           /\ calls = <<>>

\* withData([], testBody) has thrown.
C17_Witness ==
    /\ last.op = "withData" /\ dataset = Arr(<<>>)
    /\ last.out = "throw" /\ last.err = FirstArgumentError
    /\ suites = <<>> /\ calls = <<>>

\* The own enumerable properties of the mapping d.
OwnEnumerable(d) == {d.n.own[i] : i \in {j \in 1..Len(d.n.own) : d.n.own[j].enumerable}}

\* The groups titled title.
GroupsTitled(title) == {i \in 1..Len(suites) : suites[i] = title}

\* C18: for a dataset that is an object and no array, withData returns
\* normally having registered one group per own enumerable key, titled
\* 'with ' + key, and no other group, and having invoked testBody once in each
\* group and not otherwise: with the items of the key's value as arguments
\* when the value is an array, with the value as the one argument when it is
\* not; for {} that is no group and no invocation.
C18_MappingGivesOneGroupPerOwnKey ==
    (last.op = "withData" /\ dataset.t = "object")
        => /\ last.out = "return"
           /\ Len(suites) = Cardinality(OwnEnumerable(dataset))
           /\ Len(calls) = Len(suites)
           /\ \A pr \in OwnEnumerable(dataset) :
                 /\ Cardinality(GroupsTitled("with " \o pr.key)) = 1
                 /\ \A i \in GroupsTitled("with " \o pr.key) :
                       calls[i] = IF pr.value.t = "array" THEN pr.value.n
                                  ELSE <<pr.value>>

\* A mapping with an array under one key and a number under another, a
\* third key that is not enumerable and a fourth that is inherited: two
\* groups, one of them called with two arguments.
C18_Witness ==
    /\ last.op = "withData" /\ dataset.t = "object"
    /\ Len(dataset.n.own) = 3 /\ Len(dataset.n.inherited) = 1
    /\ \E i \in 1..3 : ~dataset.n.own[i].enumerable
    /\ Len(suites) = 2 /\ Len(calls) = 2
    /\ \E i \in 1..2 : suites[i] = "with name1" /\ Len(calls[i]) = 2
    /\ \E i \in 1..2 : Len(calls[i]) = 1

\* The argument lists that come n times in calls.
TimesCalled(arguments) == Cardinality({j \in 1..Len(calls) : calls[j] = arguments})

\* What testBody is to receive for the entry or value v.
Spread(v) == IF v.t = "array" THEN v.n ELSE <<v>>

\* No entry of the array d is null or undefined.
NoEntryMissing(d) == \A i \in 1..Len(d.n) : d.n[i].t \notin {"null", "undefined"}

\* C19 as stated: for an array dataset of n > 0 entries withData returns
\* having registered n groups and invoked testBody n times, once for each
\* entry (its items as arguments for an array, itself as the one argument
\* otherwise), whether or not entries are equal or are rendered alike.
\* (Stated here for the arrays without null and undefined entries.)
C19_ArrayGivesOneGroupPerEntry ==
    (/\ last.op = "withData" /\ dataset.t = "array" /\ Len(dataset.n) > 0
     /\ NoEntryMissing(dataset))
        => /\ last.out = "return"
           /\ Len(suites) = Len(dataset.n)
           /\ Len(calls) = Len(dataset.n)
           /\ \A i \in 1..Len(dataset.n) :
                 TimesCalled(Spread(dataset.n[i]))
                     = Cardinality({j \in 1..Len(dataset.n) :
                                       Spread(dataset.n[j]) = Spread(dataset.n[i])})

\* The entries of the dataset d in dataset order, as records of the label
\* and of the value: the items of an array with their renderings, the own
\* enumerable properties of a mapping, in the order of their creation, with
\* their keys.
EntriesInOrder(d) ==
    IF d.t = "array"
    THEN [i \in 1..Len(d.n) |->
             [label |-> StringifyObject(d.n[i], LabelDepth).value, value |-> d.n[i]]]
    ELSE LET own == SelectSeq(d.n.own, LAMBDA pr : pr.enumerable)
         IN  [i \in 1..Len(own) |-> [label |-> own[i].key, value |-> own[i].value]]

\* C20 as stated: when withData returns, its i-th invocation of testBody has
\* received the arguments of the i-th entry of the dataset, in index order
\* for an array and in the order of creation of the keys for a mapping,
\* labels that look like integers included.
C20_InvocationsInDatasetOrder ==
    (last.op = "withData" /\ last.out = "return")
        => \A i \in 1..Len(calls) :
              /\ i <= Len(EntriesInOrder(dataset))
              /\ calls[i] = Spread(EntriesInOrder(dataset)[i].value)

\* Where the label comes first among the entries, and where last.
FirstWith(entries, label) ==
    CHOOSE i \in 1..Len(entries) :
        entries[i].label = label /\ \A j \in 1..(i - 1) : entries[j].label # label

LastWith(entries, label) ==
    CHOOSE i \in 1..Len(entries) :
        entries[i].label = label /\ \A j \in (i + 1)..Len(entries) : entries[j].label # label

\* The label a comes before the label b in the order of the groups: array
\* indices ("0", "1", "2", ..., "10", ...) before all other labels and in
\* ascending numeric order among themselves, the other labels in the order in
\* which they first come in the dataset.
GroupBefore(entries, a, b) ==
    IF IsArrayIndex(a)
    THEN ~IsArrayIndex(b) \/ IndexValue(a) < IndexValue(b)
    ELSE ~IsArrayIndex(b) /\ FirstWith(entries, a) < FirstWith(entries, b)

\* C20 amended: when withData returns, there is one group per label of the
\* dataset, its i-th invocation of testBody is the one of its i-th group and
\* has received the arguments of the entry under that label (the last one,
\* should several entries of an array be rendered alike), and the groups
\* come in the order in which the runtime enumerates the labels as property
\* keys: array indices first, ascending, then the other labels in dataset
\* order.
C20_InvocationsInKeyOrder ==
    (last.op = "withData" /\ last.out = "return")
        => LET entries == EntriesInOrder(dataset)
               labels == {entries[i].label : i \in 1..Len(entries)}
           IN  /\ Len(suites) = Cardinality(labels)
               /\ Len(calls) = Len(suites)
               /\ \A i \in 1..Len(suites) :
                     \E l \in labels :
                         /\ suites[i] = "with " \o l
                         /\ calls[i] = Spread(entries[LastWith(entries, l)].value)
                         /\ \A j \in (i + 1)..Len(suites) :
                               \E m \in labels :
                                   /\ suites[j] = "with " \o m
                                   /\ GroupBefore(entries, l, m)

\* withData([10, 2, 'a'], testBody): the groups are those of 2, 10 and 'a',
\* in this order.
C20_Witness ==
    /\ last.op = "withData" /\ last.out = "return"
    /\ dataset = Arr(<<Num(10), Num(2), Str("a")>>)
    /\ suites = <<"with 2", "with 10", "with a">>
    /\ calls = <<<<Num(2)>>, <<Num(10)>>, <<Str("a")>>>>
\* A primitive string or number.
IsPrimitive(v) == v.t \in {"number", "string"}

\* A primitive string or number, or an array of such primitives.
PrimitiveEntry(v) ==
    \/ IsPrimitive(v)
    \/ v.t = "array" /\ \A i \in 1..Len(v.n) : IsPrimitive(v.n[i])

\* C21 as stated: when withData returns for an array dataset, each entry
\* that is a primitive string or number, or an array of such primitives, has
\* a group titled 'with ' + String(entry), and the invocation of testBody in
\* that group has received exactly the values of that entry.
C21_PrimitiveEntryTitledAndGivenItsValues ==
    (last.op = "withData" /\ last.out = "return" /\ dataset.t = "array")
        => \A i \in 1..Len(dataset.n) :
              PrimitiveEntry(dataset.n[i])
                  => \E g \in 1..Len(suites) :
                        /\ suites[g] = "with " \o ToStringOf(dataset.n[i])
                        /\ g <= Len(calls)
                        /\ calls[g] = Spread(dataset.n[i])

\* The entries of the array d that are null or undefined.
MissingEntries(d) == {i \in 1..Len(d.n) : d.n[i].t \in {"null", "undefined"}}

\* C22 as stated: for an array dataset with an entry null or undefined,
\* withData does not throw, registers a group titled 'with null' (resp.
\* 'with undefined') and invokes testBody once for that entry, with the
\* entry as its single argument.
C22_MissingEntryGetsAGroup ==
    (last.op = "withData" /\ dataset.t = "array")
        => \A i \in MissingEntries(dataset) :
              /\ last.out = "return"
              /\ \E g \in 1..Len(suites) :
                    /\ suites[g] = "with " \o dataset.n[i].t
                    /\ g <= Len(calls)
                    /\ calls[g] = <<dataset.n[i]>>
\* The first 30 characters of the JSON text of v.
JSONLabel(v) == Slice(JSONStringify(v), 30)

\* C23, the item of an array entry as stated: an object as the first 30
\* characters of its JSON text, an array by its native string conversion
\* (the other items as stringifyObject() renders them).
ItemAsStated(v) ==
    IF v.t = "object" THEN JSONLabel(v)
    ELSE IF v.t = "array" THEN ToStringOf(v)
    ELSE StringifyObject(v, 0).value

\* C23, the item of an array entry as the code renders it: an array whose
\* native string conversion is '[object Object]' gets the first 30 characters
\* of its JSON text too.
ItemAsRendered(v) ==
    IF v.t = "object" THEN JSONLabel(v)
    ELSE IF v.t = "array"
         THEN (IF ToStringOf(v) = "[object Object]" THEN JSONLabel(v) ELSE ToStringOf(v))
    ELSE StringifyObject(v, 0).value

\* The entries of the dataset that are plain objects or instances, and those
\* that are arrays.
ObjectEntries == {i \in 1..Len(dataset.n) : dataset.n[i].t = "object"}
ArrayEntries == {i \in 1..Len(dataset.n) : dataset.n[i].t = "array"}

\* C23 as stated: when withData returns for an array dataset, an entry that
\* is a plain object or a class instance has a group titled 'with ' + the
\* first 30 characters of its JSON text, and an entry that is an array has a
\* group titled 'with ' + its items joined with commas, the objects among
\* them rendered in that same way and the arrays among them by native string
\* conversion.
C23_ObjectsTitledByTruncatedJSON ==
    (last.op = "withData" /\ last.out = "return" /\ dataset.t = "array")
        => /\ \A i \in ObjectEntries :
                 \E g \in 1..Len(suites) : suites[g] = "with " \o JSONLabel(dataset.n[i])
           /\ \A i \in ArrayEntries :
                 \E g \in 1..Len(suites) :
                     suites[g] = "with " \o Join([j \in 1..Len(dataset.n[i].n) |->
                                                     ItemAsStated(dataset.n[i].n[j])], ",")

\* C23 amended: the same, but an array inside an array entry whose native
\* string conversion is exactly '[object Object]' (an array with one plain
\* object) is rendered as the first 30 characters of its JSON text.
C23_ObjectsTitledByTruncatedJSONOrNative ==
    (last.op = "withData" /\ last.out = "return" /\ dataset.t = "array")
        => /\ \A i \in ObjectEntries :
                 \E g \in 1..Len(suites) : suites[g] = "with " \o JSONLabel(dataset.n[i])
           /\ \A i \in ArrayEntries :
                 \E g \in 1..Len(suites) :
                     suites[g] = "with " \o Join([j \in 1..Len(dataset.n[i].n) |->
                                                     ItemAsRendered(dataset.n[i].n[j])], ",")

\* withData([[{description: '0123456789012345678901234'}, 1]], testBody): the
\* JSON text of the object is cut after 30 characters and joined with 1.
C23_Witness ==
    /\ last.op = "withData" /\ last.out = "return"
    /\ dataset = Arr(<<Arr(<<LongObject, Num(1)>>)>>)
    /\ suites = <<"with {\"description\":\"01234567890123,1">>
    /\ calls = <<<<LongObject, Num(1)>>>>
\* What withData of lib/leche.js does for the dataset d in a test file that
\* has registered nothing yet.
LibResult(d) ==
    WithDataCall([out |-> "return", err |-> NoError, suites |-> <<>>, calls |-> <<>>], d)

\* C24 as stated: withData of dist/leche.js ends as withData of lib/leche.js
\* does for the same dataset: the same return or error, the same group titles
\* and the same invocations of testBody.
C24_BuildsAgree ==
    last.op = "dist.withData"
        => /\ last.out = LibResult(dataset).out
           /\ last.err = LibResult(dataset).err
           /\ suites = LibResult(dataset).suites
           /\ calls = LibResult(dataset).calls
\* C25: a guard is installed when the fake is built and no assignment
\* regenerates or removes it.  Whatever step is taken from a state in which
\* p is a guarded data slot of the fake f, the own property p of f is still
\* the accessor property with the getter and the setter of fake(), with the
\* same key and without a value of its own; an assignment to f.p returns and
\* changes nothing in the heap but the private state of that slot, which then
\* holds the assigned value (a string, an object or a fake alike); any other
\* step leaves the property as it was.
C25_GuardsStayInstalled ==
    [][\A f \in Fakes, p \in Names :
          GuardedSlot(f, p) =>
              /\ GuardedSlot(f, p)'
              /\ heap'[f][p].kind = "accessor"
              /\ heap'[f][p].set = "guard"
              /\ heap'[f][p].propertyKey = p
              /\ heap'[f][p].value = Undefined
              /\ IF last'.op = "set" /\ last'.obj = f /\ last'.key = p
                 THEN /\ last'.out = "return"
                      /\ heap' = [heap EXCEPT ![f][p].propertyIsSet = TRUE,
                                              ![f][p].propertyValue = last'.value]
                 ELSE heap'[f][p] = heap[f][p]]_vars

\* The second fake was assigned to a guarded slot of the first, again or for
\* the first time: the property is the guarded accessor still, and the slot
\* of the second fake is as it was built.
C25_Witness ==
    /\ LastIs("set") /\ last.obj = "fake1" /\ last.value = Ref("fake2")
    /\ built["fake2"] = "returned"
    /\ written["fake1"][last.key].done
    /\ heap["fake1"][last.key].kind = "accessor"
    /\ heap["fake1"][last.key].get = "guard"
    /\ heap["fake1"][last.key].propertyValue = Ref("fake2")
    /\ heap["fake2"][last.key].get = "guard"
    /\ ~heap["fake2"][last.key].propertyIsSet
\* The most-derived definition of k: the property template[k] resolves to.
\* (Resolved(k), for a name the template or an ancestor defines.)
MostDerived(k) == Resolved(k)

\* f holds the replacement that the definition d of k calls for: a guarded
\* method for a method; a guarded data slot for a field where the runtime has
\* Object.getOwnPropertyDescriptor, and an undefined data property where it
\* has not; an undefined data property for an accessor.
ReplacementFor(f, k, d) ==
    IF d.kind = "data" /\ IsFunction(d.value) THEN GuardedMethod(f, k)
    ELSE IF d.kind = "data" /\ HasGetOwnPropertyDescriptor
         THEN heap[f][k] = GuardedDescriptor(k)
    ELSE heap[f][k] = PlaceholderDescriptor

\* C26 as stated: once fake(template) has returned, every name that the
\* enumeration of the template discovers, own or inherited, has one
\* replacement, an own property of the fake, and until the test assigns the
\* member the replacement is of the kind that the most-derived definition of
\* the name calls for, whatever the ancestors define under the same name.
C26_OneReplacementByMostDerivedDefinition ==
    \A f \in Fakes, k \in Names :
        (built[f] = "returned" /\ Enumerated(k))
            => /\ HasOwnProperty(heap, f, k)
               /\ ~written[f][k].done => ReplacementFor(f, k, MostDerived(k))
\* The errors of leche's guards for the member k.
LecheErrors(k) == {UnexpectedUse(k), UnexpectedCall(k)}

\* The fake f has left the member k of the template alone: it has no own
\* property k, and a read or a call of f[k] has resolved to the template's
\* member and raised no error of leche (a field was read as it is).
Unreplaced(f, k) ==
    /\ ~HasOwnProperty(heap, f, k)
    /\ Holder(heap, proto, f, k) = Holder(heap, proto, Template, k)
    /\ (last.op \in {"get", "call"} /\ last.obj = f /\ last.key = k) =>
          /\ last.err \notin LecheErrors(k)
          /\ (last.op = "get" /\ Resolved(k).kind = "data") =>
                last.out = "return" /\ last.value = Resolved(k).value

\* C27 as stated: the members fake() leaves unreplaced are the non-enumerable
\* ones and no others.  For every member of the template, own or inherited:
\* if it is enumerable the fake has an own property of that name; if it is
\* not, then until the test assigns it the fake has none, and reading or
\* calling it on the fake resolves to the template's member and raises no
\* error of leche.
C27_OnlyNonEnumerableMembersUnreplaced ==
    \A f \in Fakes, k \in Names :
        (built[f] = "returned" /\ In(heap, proto, Template, k))
            => IF Resolved(k).enumerable
               THEN HasOwnProperty(heap, f, k)
               ELSE ~written[f][k].done => Unreplaced(f, k)
=============================================================================
